---- MODULE Spec2Model ----
(***************************************************************************)
(* Node poll of k8eraid (pkgs/queries/node.go): PollNode resolves the      *)
(* nodes an alert spec applies to and checkNode decides, per node, whether *)
(* a condition transition is fresh enough to raise an alert.               *)
(*                                                                         *)
(* One PollNode invocation is a sequence of steps (pc); between two steps  *)
(* the wall clock may advance and the cluster may change a node condition. *)
(* The trace of an invocation records its API calls and its alertFn calls  *)
(* in the order they happen.                                               *)
(***************************************************************************)
EXTENDS Integers, Sequences, FiniteSets, TLC

\* ------------------------------------------------------------------ bounds
MaxConds   == 2    \* conditions carried by one node
MaxItems   == 2    \* nodes returned by one list call
MaxTick    == 2    \* largest tickertime (seconds)
MaxElapsed == 2    \* seconds the wall clock advances in one behaviour
MaxPolls   == 2    \* PollNode invocations in one behaviour of SpecCycle
MaxTransitions == 1 \* condition transitions in one behaviour of SpecCycle
StartTime  == 100  \* wall clock (Unix seconds) of the initial state

\* ------------------------------------------------------- program constants
DefaultPendingThreshold == 10
Wildcard == "*"

Kinds == {"Ready", "OutOfDisk", "MemoryPressure", "DiskPressure"}
\* NetworkUnavailable is a condition type checkNode has no branch for
CondTypes == Kinds \cup {"NetworkUnavailable"}
NodeNames == {"node-a", "node-b", "node-c"}
NodeFilter == "role=worker"

NoNode == [created |-> 0, conds |-> <<>>]

VARIABLES
    clock,      \* wall clock, Unix seconds (time.Now().Unix())
    cluster,    \* API server: node name -> [created, conds]
    args,       \* what the scheduler passes: [alertSpec, tickertime]
    pollsLeft,  \* invocations the scheduler still makes
    pc,         \* position inside PollNode / checkNode
    alertSpec,  \* PollNode's by-value copy of the spec (normalised)
    items,      \* nodes.Items, as the names the list call returned
    idx,        \* position of the range loop over nodes.Items
    node,       \* the node the last Get returned
    nowSeconds, \* checkNode's local clock reading
    trace,      \* API calls and alertFn calls of the current invocation
    ret,        \* "none" before any call, "pending", "nil" or "err"
    evals,      \* history: every finished checkNode call
    transCount  \* history: condition transitions the cluster has made

vars == <<clock, cluster, args, pollsLeft, pc, alertSpec, items, idx, node,
          nowSeconds, trace, ret, evals, transCount>>

\* ----------------------------------------------------------- pure helpers
\* the messages, as the operands handed to fmt.Sprint
MinNodesMessage(spec) ==
    <<"Node count with filter", spec.NodeFilter, "in under minimum specification!">>

ReadyMessage(spec) ==
    <<"Node", spec.Name, "has changed ready status since last poll and may be restarting!">>

OutOfDiskMessage(spec) ==
    <<"Node", spec.Name, "has changed OutOfDisk status since last poll and may have observed disk space issues!">>

MemoryPressureMessage(spec) ==
    <<"Node", spec.Name, "has changed MemoryPressure status since last poll and may have observed memory pressure!">>

DiskPressureMessage(spec) ==
    <<"Node", spec.Name, "has changed DiskPressure tatus since last poll and may have observed disk pressure!">>

\* mutant: the default is never applied
NoDefault(spec) == spec

Normalize(spec) ==
    IF spec.PendingThreshold = 0
    THEN [spec EXCEPT !.PendingThreshold = DefaultPendingThreshold]
    ELSE spec

\* mutant: the comparison with "*" inverted
IsNamedInverted(spec) == spec.Name = Wildcard

IsNamed(spec) == spec.Name # Wildcard

\* mutant: <= instead of <
UnderMinimumOrEqual(count, spec) == count <= spec.MinNodes

UnderMinimum(count, spec) == count < spec.MinNodes

\* mutant: a failed re-fetch skips the node and the loop goes on
SkipAndContinue(i) == [pc |-> "loop", ret |-> "pending", idx |-> i + 1]

OnItemFetchError(i) == [pc |-> "idle", ret |-> "err", idx |-> i]

\* mutant: the loop skips every other node
NextIndexSkipping(i) == i + 2

NextIndex(i) == i + 1

\* mutant: >= instead of >
AgeGateInclusive(n, spec, now) == now - n.created >= spec.PendingThreshold

AgeGate(n, spec, now) ==
    LET statusCreatedSecondsDiff == now - n.created
    IN  statusCreatedSecondsDiff > spec.PendingThreshold

\* mutant: the clock is read again for every condition
TransitionTimeDiffReread(now, condition) == clock - condition.ltt

TransitionTimeDiff(now, condition) == now - condition.ltt

\* mutant: <= instead of <
FreshOrEqual(transitiontimeDiff, tick) == transitiontimeDiff <= tick

Fresh(transitiontimeDiff, tick) == transitiontimeDiff < tick

\* mutant: the return after alertFn is missing
AlertAndContinue(message, rest) == <<message>> \o rest

AlertAndReturn(message, rest) == <<message>>

\* the loop of checkNode from condition i on: the alertFn messages it sends
RECURSIVE ScanFrom(_, _, _, _, _)
ScanFrom(i, conds, spec, tick, now) ==
    IF i > Len(conds) THEN <<>>
    ELSE
      LET condition == conds[i]
          transitiontimeDiff == TransitionTimeDiff(now, condition)
          rest == ScanFrom(i + 1, conds, spec, tick, now)
      IN  IF condition.type = "Ready" THEN
              IF Fresh(transitiontimeDiff, tick) /\ spec.NodeReady
              THEN AlertAndReturn(ReadyMessage(spec), rest) ELSE rest
          ELSE IF condition.type = "OutOfDisk" THEN
              IF Fresh(transitiontimeDiff, tick) /\ spec.NodeOutOfDisk
              THEN AlertAndReturn(OutOfDiskMessage(spec), rest) ELSE rest
          ELSE IF condition.type = "MemoryPressure" THEN
              IF Fresh(transitiontimeDiff, tick) /\ spec.NodeMemoryPressure
              THEN AlertAndReturn(MemoryPressureMessage(spec), rest) ELSE rest
          ELSE IF condition.type = "DiskPressure" THEN
              IF Fresh(transitiontimeDiff, tick) /\ spec.NodeDiskPressure
              THEN AlertAndReturn(DiskPressureMessage(spec), rest) ELSE rest
          ELSE rest

\* checkNode for one clock reading
CheckNode(n, spec, tick, now) ==
    IF AgeGate(n, spec, now) THEN ScanFrom(1, n.conds, spec, tick, now) ELSE <<>>

\* trace events
GetEvent(name, ok) == <<"get", name, ok>>
ListEvent(filter, ok) == <<"list", filter, ok>>
AlertEvent(message) == <<"alert", message, TRUE>>

RECURSIVE AlertEvents(_)
AlertEvents(messages) ==
    IF messages = <<>> THEN <<>>
    ELSE <<AlertEvent(Head(messages))>> \o AlertEvents(Tail(messages))

EvalRecord(n, spec, tick, now, out) ==
    [node |-> n, spec |-> spec, tick |-> tick, now |-> now, out |-> out]

\* ---------------------------------------------------------------- actions
\* PollNode, lines 37-42: default the threshold, pick the branch
PollNode ==
    /\ pc = "idle"
    /\ pollsLeft > 0
    /\ pollsLeft' = pollsLeft - 1
    /\ alertSpec' = Normalize(args.alertSpec)
    /\ pc' = IF IsNamed(alertSpec') THEN "get" ELSE "list"
    /\ trace' = <<>>
    /\ ret' = "pending"
    /\ items' = <<>>
    /\ idx' = 0
    /\ node' = NoNode
    /\ UNCHANGED <<clock, cluster, args, nowSeconds, evals, transCount>>

\* lines 44-49: Nodes().Get(alertSpec.Name); the call may fail
GetNamed ==
    /\ pc = "get"
    /\ \E ok \in BOOLEAN :
         /\ ok => alertSpec.Name \in DOMAIN cluster
         /\ trace' = Append(trace, GetEvent(alertSpec.Name, ok))
         /\ IF ok
            THEN /\ node' = cluster[alertSpec.Name]
                 /\ pc' = "check"
                 /\ ret' = ret
            ELSE /\ node' = node
                 /\ pc' = "idle"
                 /\ ret' = "err"
    /\ UNCHANGED <<clock, cluster, args, pollsLeft, alertSpec, items, idx,
                   nowSeconds, evals, transCount>>

\* the lists the API server can answer with: distinct node names
ListResults ==
    {s \in UNION {[1..n -> DOMAIN cluster] : n \in 0..MaxItems} :
        \A i, j \in DOMAIN s : i # j => s[i] # s[j]}

\* lines 55-68: Nodes().List(listopts); the call may fail
ListNodes ==
    /\ pc = "list"
    /\ \/ /\ trace' = Append(trace, ListEvent(alertSpec.NodeFilter, FALSE))
          /\ pc' = "idle"
          /\ ret' = "err"
          /\ items' = items
       \/ \E result \in ListResults :
            /\ trace' = Append(trace, ListEvent(alertSpec.NodeFilter, TRUE))
            /\ items' = result
            /\ pc' = "min"
            /\ ret' = ret
    /\ UNCHANGED <<clock, cluster, args, pollsLeft, alertSpec, idx, node,
                   nowSeconds, evals, transCount>>

\* lines 71-75: the minimum-count alert
CheckMinNodes ==
    /\ pc = "min"
    /\ trace' = IF UnderMinimum(Len(items), alertSpec)
                THEN Append(trace, AlertEvent(MinNodesMessage(alertSpec)))
                ELSE trace
    /\ idx' = 1
    /\ pc' = "loop"
    /\ UNCHANGED <<clock, cluster, args, pollsLeft, alertSpec, items, node,
                   nowSeconds, ret, evals, transCount>>

\* lines 78-84: the range loop re-fetches the next listed node, or ends
GetItem ==
    /\ pc = "loop"
    /\ IF idx > Len(items)
       THEN /\ pc' = "return"
            /\ UNCHANGED <<trace, node, ret, idx>>
       ELSE \E ok \in BOOLEAN :
            /\ trace' = Append(trace, GetEvent(items[idx], ok))
            /\ IF ok
               THEN /\ node' = cluster[items[idx]]
                    /\ pc' = "check"
                    /\ UNCHANGED <<ret, idx>>
               ELSE /\ node' = node
                    /\ pc' = OnItemFetchError(idx).pc
                    /\ ret' = OnItemFetchError(idx).ret
                    /\ idx' = OnItemFetchError(idx).idx
    /\ UNCHANGED <<clock, cluster, args, pollsLeft, alertSpec, items,
                   nowSeconds, evals, transCount>>

\* where PollNode goes on after a checkNode call (line 51 or line 85)
AfterCheck == IF IsNamed(alertSpec) THEN "return" ELSE "loop"

\* checkNode, lines 99-103: read the clock, apply the age gate
CheckNodeEnter ==
    /\ pc = "check"
    /\ nowSeconds' = clock
    /\ IF AgeGate(node, alertSpec, nowSeconds')
       THEN /\ pc' = "scan"
            /\ UNCHANGED <<idx, evals>>
       ELSE /\ pc' = AfterCheck
            /\ idx' = IF IsNamed(alertSpec) THEN idx ELSE NextIndex(idx)
            /\ evals' = Append(evals, EvalRecord(node, alertSpec, args.tickertime,
                                                 nowSeconds', <<>>))
    /\ UNCHANGED <<clock, cluster, args, pollsLeft, alertSpec, items, node,
                   trace, ret, transCount>>

\* checkNode, lines 104-135: the scan of the conditions
CheckNodeScan ==
    /\ pc = "scan"
    /\ LET out == ScanFrom(1, node.conds, alertSpec, args.tickertime, nowSeconds)
       IN  /\ trace' = trace \o AlertEvents(out)
           /\ evals' = Append(evals, EvalRecord(node, alertSpec, args.tickertime,
                                                nowSeconds, out))
    /\ pc' = AfterCheck
    /\ idx' = IF IsNamed(alertSpec) THEN idx ELSE NextIndex(idx)
    /\ UNCHANGED <<clock, cluster, args, pollsLeft, alertSpec, items, node,
                   nowSeconds, ret, transCount>>

\* line 88: return nil
ReturnNil ==
    /\ pc = "return"
    /\ ret' = "nil"
    /\ pc' = "idle"
    /\ UNCHANGED <<clock, cluster, args, pollsLeft, alertSpec, items, idx, node,
                   nowSeconds, trace, evals, transCount>>

\* environment: a second passes
Tick ==
    /\ clock < StartTime + MaxElapsed
    /\ clock' = clock + 1
    /\ UNCHANGED <<cluster, args, pollsLeft, pc, alertSpec, items, idx, node,
                   nowSeconds, trace, ret, evals, transCount>>

\* environment: a condition of a node changes status; the cluster stamps
\* its lastTransitionTime with the current time
Transition ==
    /\ transCount < MaxTransitions
    /\ \E name \in DOMAIN cluster :
         \E i \in DOMAIN cluster[name].conds :
           /\ cluster[name].conds[i].ltt # clock
           /\ cluster' = [cluster EXCEPT ![name].conds[i].ltt = clock]
    /\ transCount' = transCount + 1
    /\ UNCHANGED <<clock, args, pollsLeft, pc, alertSpec, items, idx, node,
                   nowSeconds, trace, ret, evals>>

\* ------------------------------------------------------------ input sets
AlertSpecs(names, flagSets, thresholds, minima) ==
    {[Name |-> nm, NodeFilter |-> NodeFilter,
      NodeReady |-> "Ready" \in f, NodeOutOfDisk |-> "OutOfDisk" \in f,
      NodeMemoryPressure |-> "MemoryPressure" \in f,
      NodeDiskPressure |-> "DiskPressure" \in f,
      PendingThreshold |-> pt, MinNodes |-> mn] :
        nm \in names, f \in flagSets, pt \in thresholds, mn \in minima}

Conditions(types, ltts) == {[type |-> t, ltt |-> l] : t \in types, l \in ltts}

CondSeqs(types, ltts, maxLen) ==
    UNION {[1..n -> Conditions(types, ltts)] : n \in 0..maxLen}

Snapshots(createds, condSeqs) ==
    {[created |-> c, conds |-> cs] : c \in createds, cs \in condSeqs}

InitWith(clusters, specs, ticks, polls) ==
    /\ clock = StartTime
    /\ cluster \in clusters
    /\ args \in {[alertSpec |-> s, tickertime |-> t] : s \in specs, t \in ticks}
    /\ pollsLeft = polls
    /\ pc = "idle"
    /\ alertSpec = args.alertSpec
    /\ items = <<>>
    /\ idx = 0
    /\ node = NoNode
    /\ nowSeconds = 0
    /\ trace = <<>>
    /\ ret = "none"
    /\ evals = <<>>
    /\ transCount = 0

\* ---------------------------------------------------------- specifications
\* Spec: one invocation over a three-node cluster, named or by filter
OldFresh ==
    [created |-> StartTime - (DefaultPendingThreshold + 1),
     conds |-> <<[type |-> "Ready", ltt |-> StartTime],
                 [type |-> "DiskPressure", ltt |-> StartTime]>>]

YoungFresh ==
    [created |-> StartTime - 1,
     conds |-> <<[type |-> "Ready", ltt |-> StartTime]>>]

FlowClusters == [NodeNames -> {OldFresh, YoungFresh}]

FlowSpecs ==
    AlertSpecs({Wildcard, "node-a", "node-z"}, {Kinds, {"DiskPressure"}, {}},
               {0}, 0..(MaxItems + 1))

Init == InitWith(FlowClusters, FlowSpecs, 1..MaxTick, 1)

Next ==
    \/ PollNode
    \/ GetNamed
    \/ ListNodes
    \/ CheckMinNodes
    \/ GetItem
    \/ CheckNodeEnter
    \/ CheckNodeScan
    \/ ReturnNil
    \/ Tick

Spec == Init /\ [][Next]_vars

\* SpecCheck: one named invocation for every node snapshot and spec of the
\* bounded input sets, at a fixed clock
CheckClusters ==
    {[n \in {"node-a"} |-> s] :
        s \in Snapshots({StartTime - DefaultPendingThreshold,
                         StartTime - (DefaultPendingThreshold + 1)},
                        CondSeqs(CondTypes,
                                 {StartTime - MaxTick, StartTime - MaxTick + 1},
                                 MaxConds))}

CheckSpecs ==
    AlertSpecs({"node-a"}, SUBSET Kinds, {-1, 0, DefaultPendingThreshold}, {0})

InitCheck == InitWith(CheckClusters, CheckSpecs, {MaxTick}, 1)

NextCheck ==
    \/ PollNode
    \/ GetNamed
    \/ CheckNodeEnter
    \/ CheckNodeScan
    \/ ReturnNil

SpecCheck == InitCheck /\ [][NextCheck]_vars

\* SpecCycle: successive named invocations on one old node while the clock
\* advances and the cluster changes a condition
CycleClusters ==
    {[n \in {"node-a"} |-> s] :
        s \in Snapshots({StartTime - (DefaultPendingThreshold + 1)},
                        CondSeqs({"Ready", "DiskPressure"},
                                 {StartTime - MaxTick}, MaxConds))}

CycleSpecs == AlertSpecs({"node-a"}, {Kinds}, {0}, {0})

InitCycle == InitWith(CycleClusters, CycleSpecs, 1..MaxTick, MaxPolls)

NextCycle ==
    \/ PollNode
    \/ GetNamed
    \/ CheckNodeEnter
    \/ CheckNodeScan
    \/ ReturnNil
    \/ Tick
    \/ Transition

SpecCycle == InitCycle /\ [][NextCycle]_vars

\* ------------------------------------------------- vocabulary of the claims
Returned == pc = "idle" /\ ret \in {"nil", "err"}

IsGet(e) == e[1] = "get"
IsList(e) == e[1] = "list"
IsAlert(e) == e[1] = "alert"
IsFailure(e) == (IsGet(e) \/ IsList(e)) /\ ~e[3]
IsMinAlert(e) == IsAlert(e) /\ e[2][1] = "Node count with filter"
IsNodeAlert(e) == IsAlert(e) /\ e[2][1] = "Node"

Gets == SelectSeq(trace, IsGet)
Lists == SelectSeq(trace, IsList)
Alerts == SelectSeq(trace, IsAlert)
MinAlerts == SelectSeq(trace, IsMinAlert)

\* the messages handed to alertFn in the current invocation, in order
Dispatched == [i \in DOMAIN Alerts |-> Alerts[i][2]]

\* the checkNode call of a named invocation has finished
CheckDone == pc = "return" \/ (pc = "idle" /\ ret = "nil")

\* the spec's opt-in flag of a condition type (FALSE for an unrecognized type)
FlagOf(spec, type) ==
    CASE type = "Ready" -> spec.NodeReady
      [] type = "OutOfDisk" -> spec.NodeOutOfDisk
      [] type = "MemoryPressure" -> spec.NodeMemoryPressure
      [] type = "DiskPressure" -> spec.NodeDiskPressure
      [] OTHER -> FALSE

MessageOf(spec, type) ==
    CASE type = "Ready" -> ReadyMessage(spec)
      [] type = "OutOfDisk" -> OutOfDiskMessage(spec)
      [] type = "MemoryPressure" -> MemoryPressureMessage(spec)
      [] type = "DiskPressure" -> DiskPressureMessage(spec)

\* condition i of node n is of a recognized kind, fresh and enabled
Qualifies(n, i, spec, tick, now) ==
    /\ n.conds[i].type \in Kinds
    /\ now - n.conds[i].ltt < tick
    /\ FlagOf(spec, n.conds[i].type)

Qualifying(n, spec, tick, now) ==
    {i \in DOMAIN n.conds : Qualifies(n, i, spec, tick, now)}

First(S) == CHOOSE i \in S : \A j \in S : i <= j

\* the threshold the spec documents: the spec's own value, or the default
EffectiveThreshold(raw) ==
    IF raw.PendingThreshold = 0 THEN DefaultPendingThreshold
    ELSE raw.PendingThreshold

\* ------------------------------------------------------- claims under Spec
\* C1: an invocation for a spec whose name is not "*" makes no list call and
\* at most one fetch-by-name, for spec.name; once it has returned it has made
\* exactly one; if that fetch failed the invocation has returned an error
\* and alertFn was never called.
C1_NamedSingleFetch ==
    (args.alertSpec.Name # Wildcard /\ ret # "none") =>
        /\ Lists = <<>>
        /\ Len(Gets) <= 1
        /\ \A i \in DOMAIN Gets : Gets[i][2] = args.alertSpec.Name
        /\ Returned => Len(Gets) = 1
        /\ (Gets # <<>> /\ ~Gets[1][3]) =>
              (Returned /\ ret = "err" /\ Alerts = <<>>)

C1_Witness ==
    /\ args.alertSpec.Name # Wildcard
    /\ Returned /\ ret = "err"
    /\ trace = <<GetEvent(args.alertSpec.Name, FALSE)>>

\* C2: once the list call of a filtered invocation has succeeded and line 71
\* has been passed, the trace holds exactly one "under minimum" alert when
\* fewer than minNodes nodes were listed and none otherwise, whatever the
\* listed nodes look like and whatever the re-fetches do.
C2_MinNodesOnce ==
    (/\ args.alertSpec.Name = Wildcard
     /\ trace # <<>>
     /\ trace[1] = ListEvent(NodeFilter, TRUE)
     /\ pc # "min") =>
        Len(MinAlerts) =
            (IF Len(items) < args.alertSpec.MinNodes THEN 1 ELSE 0)

C2_Witness ==
    /\ args.alertSpec.Name = Wildcard
    /\ Returned /\ ret = "err"
    /\ Len(items) = 2
    /\ Len(items) < args.alertSpec.MinNodes
    /\ Len(MinAlerts) = 1
    /\ Len(Alerts) = 2
    /\ Len(Gets) = 2

\* C6: PollNode has returned an error exactly when one of its fetches
\* failed, and a failed fetch is the last event of the invocation: nothing
\* is fetched or dispatched after it; what was dispatched before it stays.
C6_ErrorIffFetchFailed ==
    /\ \A i \in DOMAIN trace :
          IsFailure(trace[i]) => (i = Len(trace) /\ Returned /\ ret = "err")
    /\ Returned =>
          (ret = "err" <=> \E i \in DOMAIN trace : IsFailure(trace[i]))

C6_Witness ==
    /\ Returned /\ ret = "err"
    /\ Len(items) = 2
    /\ Len(trace) = 3
    /\ IsMinAlert(trace[2])
    /\ trace[3] = GetEvent(items[1], FALSE)

\* C7: the trace of a filtered invocation is one sequence in list order: the
\* list call first and only once, the "under minimum" alert (if any) right
\* after it, then for the listed nodes in order one re-fetch each, every
\* node alert directly after the re-fetch of its node; after a nil return
\* every listed node has been fetched.
C7_SequentialTrace ==
    (args.alertSpec.Name = Wildcard /\ trace # <<>>) =>
        /\ IsList(trace[1])
        /\ \A i \in DOMAIN trace :
              /\ IsList(trace[i]) => i = 1
              /\ IsMinAlert(trace[i]) => i = 2
              /\ IsNodeAlert(trace[i]) => (i > 1 /\ IsGet(trace[i - 1]))
        /\ Len(Gets) <= Len(items)
        /\ \A k \in DOMAIN Gets : Gets[k][2] = items[k]
        /\ (Returned /\ ret = "nil") => Len(Gets) = Len(items)

C7_Witness ==
    /\ args.alertSpec.Name = Wildcard
    /\ Returned /\ ret = "nil"
    /\ Len(items) = 2
    /\ Len(trace) = 6
    /\ IsMinAlert(trace[2])
    /\ IsNodeAlert(trace[4])
    /\ IsNodeAlert(trace[6])

\* -------------------------------------------------- claims under SpecCheck
\* C3: when checkNode has run on a node whose age is at most the effective
\* threshold (the spec's pendingThreshold, or 10 when that is zero), alertFn
\* was not called; and under a spec with pendingThreshold 0 the dispatches
\* are those checkNode makes under the same spec with pendingThreshold 10.
C3_AgeGate ==
    CheckDone =>
        /\ (nowSeconds - node.created <= EffectiveThreshold(args.alertSpec))
              => Dispatched = <<>>
        /\ (args.alertSpec.PendingThreshold = 0) =>
              Dispatched =
                CheckNode(node,
                          [args.alertSpec EXCEPT
                              !.PendingThreshold = DefaultPendingThreshold],
                          args.tickertime, nowSeconds)

C3_Witness ==
    /\ CheckDone
    /\ args.alertSpec.PendingThreshold = 0
    /\ nowSeconds - node.created = DefaultPendingThreshold
    /\ Qualifying(node, args.alertSpec, args.tickertime, nowSeconds) # {}
    /\ Dispatched = <<>>

\* C4 as claimed: a node whose age is at or above the threshold and that
\* carries a fresh Ready condition, under nodeReady = true, gets exactly one
\* dispatch, the ready-status message.
C4_AsClaimed ==
    (/\ CheckDone
     /\ nowSeconds - node.created >= alertSpec.PendingThreshold
     /\ alertSpec.NodeReady
     /\ \E i \in DOMAIN node.conds :
           /\ node.conds[i].type = "Ready"
           /\ nowSeconds - node.conds[i].ltt < args.tickertime) =>
        Dispatched = <<ReadyMessage(alertSpec)>>

\* C4 as amended: a node whose age is strictly above the effective threshold
\* and that carries a fresh Ready condition, under nodeReady = true, with no
\* fresh and enabled condition of another recognized kind listed before it,
\* gets exactly one dispatch, the ready-status message, whatever conditions
\* follow the Ready condition.
C4_ReadyFirst ==
    (/\ CheckDone
     /\ nowSeconds - node.created > EffectiveThreshold(args.alertSpec)
     /\ args.alertSpec.NodeReady
     /\ \E i \in DOMAIN node.conds :
           /\ node.conds[i].type = "Ready"
           /\ nowSeconds - node.conds[i].ltt < args.tickertime
           /\ \A j \in 1..(i - 1) :
                 Qualifies(node, j, args.alertSpec, args.tickertime, nowSeconds)
                     => node.conds[j].type = "Ready") =>
        Dispatched = <<ReadyMessage(alertSpec)>>

C4_Witness ==
    /\ CheckDone
    /\ nowSeconds - node.created > EffectiveThreshold(args.alertSpec)
    /\ Len(node.conds) = 2
    /\ node.conds[1].type = "Ready"
    /\ node.conds[2].type = "DiskPressure"
    /\ Qualifying(node, args.alertSpec, args.tickertime, nowSeconds) = {1, 2}
    /\ Dispatched = <<ReadyMessage(alertSpec)>>

\* C5: for a node that passes the age gate, alertFn is called at most once,
\* with the message of the first condition in list order that is of a
\* recognized kind, fresh and enabled; it is not called when no condition
\* is.
C5_FirstMatchWins ==
    (CheckDone /\ nowSeconds - node.created > EffectiveThreshold(args.alertSpec)) =>
        LET q == Qualifying(node, args.alertSpec, args.tickertime, nowSeconds)
        IN  /\ Len(Dispatched) <= 1
            /\ Dispatched =
                  (IF q = {} THEN <<>>
                   ELSE <<MessageOf(alertSpec, node.conds[First(q)].type)>>)

\* a fresh but disabled MemoryPressure condition is passed over and the
\* OutOfDisk condition after it is dispatched
C5_Witness ==
    /\ CheckDone
    /\ nowSeconds - node.created > EffectiveThreshold(args.alertSpec)
    /\ Len(node.conds) = 2
    /\ node.conds[1].type = "MemoryPressure"
    /\ nowSeconds - node.conds[1].ltt < args.tickertime
    /\ ~args.alertSpec.NodeMemoryPressure
    /\ node.conds[2].type = "OutOfDisk"
    /\ Dispatched = <<OutOfDiskMessage(alertSpec)>>

\* C8 as claimed: whenever the age gate is reached, the threshold it
\* compares with is strictly positive.
C8_AsClaimed ==
    pc \in {"check", "scan"} => alertSpec.PendingThreshold > 0

\* C8 as amended: whenever the age gate is reached under a spec whose
\* pendingThreshold is zero or positive, the threshold it compares with is
\* strictly positive.
C8_PositiveThreshold ==
    (pc \in {"check", "scan"} /\ args.alertSpec.PendingThreshold >= 0)
        => alertSpec.PendingThreshold > 0

C8_Witness ==
    /\ pc = "scan"
    /\ args.alertSpec.PendingThreshold = 0
    /\ alertSpec.PendingThreshold = DefaultPendingThreshold

\* -------------------------------------------------- claims under SpecCycle
\* C9 as claimed: two checkNode calls on the identical node snapshot with the
\* identical spec and tickertime make the identical dispatches.
C9_AsClaimed ==
    \A i, j \in DOMAIN evals :
        (/\ evals[i].node = evals[j].node
         /\ evals[i].spec = evals[j].spec
         /\ evals[i].tick = evals[j].tick) => evals[i].out = evals[j].out

\* C9 as amended: two checkNode calls on the identical node snapshot with the
\* identical spec and tickertime that read the identical clock value at
\* their start make the identical dispatches; the clock, read once per
\* call, is the only input that is not passed in.
C9_SameClockSameDispatch ==
    \A i, j \in DOMAIN evals :
        (/\ evals[i].node = evals[j].node
         /\ evals[i].spec = evals[j].spec
         /\ evals[i].tick = evals[j].tick
         /\ evals[i].now = evals[j].now) => evals[i].out = evals[j].out

C9_Witness ==
    /\ Len(evals) >= 2
    /\ evals[1].node = evals[2].node
    /\ evals[1].spec = evals[2].spec
    /\ evals[1].tick = evals[2].tick
    /\ evals[1].now = evals[2].now
    /\ evals[1].out # <<>>
    /\ evals[2].out = evals[1].out

\* the lastTransitionTime every condition starts with in SpecCycle
InitialTransitionTime == StartTime - MaxTick

\* the conditions of node-a the cluster has changed since the initial state
Changed ==
    {i \in DOMAIN cluster["node-a"].conds :
        cluster["node-a"].conds[i].ltt # InitialTransitionTime}

\* C10: polls (clock readings of checkNode) exactly tickertime apart, a node
\* older than the threshold at each of them, and a single transition, of an
\* enabled recognized condition, at time L, with a poll at or before L and a
\* poll at or after L + tickertime: exactly one poll has dispatched, the
\* first one at or after L.
C10_AlertedExactlyOnce ==
    (/\ transCount = 1
     /\ Cardinality(Changed) = 1
     /\ \A k \in DOMAIN evals :
           /\ evals[k].now - evals[k].node.created > evals[k].spec.PendingThreshold
           /\ k > 1 => evals[k].now - evals[k - 1].now = args.tickertime
     /\ LET L == cluster["node-a"].conds[First(Changed)].ltt
        IN  /\ \E k \in DOMAIN evals : evals[k].now <= L
            /\ \E k \in DOMAIN evals : evals[k].now >= L + args.tickertime) =>
        LET L == cluster["node-a"].conds[First(Changed)].ltt
            after == {k \in DOMAIN evals : evals[k].now >= L}
        IN  {k \in DOMAIN evals : evals[k].out # <<>>} = {First(after)}

====
